---- MODULE Spec2Model ----
(***************************************************************************)
(* Vy semantic memory: ChromaMemoryStore (failure-tolerant writes, failed- *)
(* embedding bookkeeping, similarity search) and the MemoryService on top  *)
(* of it.  Asynchronous methods are modelled as tasks that advance from    *)
(* one await (Embedding Provider call, Document Store call) to the next.   *)
(***************************************************************************)
EXTENDS Integers, Sequences, FiniteSets, TLC

\* ------------------------------------------------------------------------
\* Bounds
\* ------------------------------------------------------------------------
MaxRetryCount == 2
MaxBatch == 2
MaxHits == 2
MaxTexts == 3
MaxBatchSize == 3

\* ------------------------------------------------------------------------
\* Data
\* ------------------------------------------------------------------------
Tasks == {1, 2}

NoId == ""
GenIds == <<"u1">>

MemoryType == {"conversation", "insight", "learning", "fact", "action_item"}

Contents == {"c1", "c2"}

\* Date values are milliseconds; InvalidDate is the NaN time value.
InvalidDate == -1
Timestamps == {1, 2}
IsoStrings == <<"T1", "T2">>

\* The open metadata map, restricted to three keys.  NoKey marks a key
\* that is not present in the map.
NoKey == "<absent>"
NoMeta == [type |-> NoKey, timestamp |-> NoKey, topic |-> NoKey]

\* a SearchQuery: NoText, limit 0 and NoScore stand for absent fields
NoText == "<undefined>"
NoScore == -1
NoQuery == [query |-> NoText, limit |-> 0, minRelevanceScore |-> NoScore]

\* the arguments of a Memory Service tool call: NoText and 0 stand for
\* absent fields
NoRange == [start |-> 0, end |-> 0]

NoArgs == [query |-> NoText, limit |-> 0, minRelevanceScore |-> NoScore,
           currentQuery |-> NoText, maxMemories |-> 0,
           maxTokens |-> 0, types |-> {}, timeRange |-> NoRange]

\* a selectionReason: its opening text, the count and the reasons it joins
NoReason == [text |-> "", count |-> 0, reasons |-> <<>>]

NoMem == [id |-> NoId, type |-> "", content |-> "", timestamp |-> 0,
          metadata |-> NoMeta]
NoDoc == [id |-> NoId, embedding |-> <<>>, document |-> "",
          metadata |-> NoMeta]

\* Date.prototype.toISOString on a valid date.
toISOString(ts) == IsoStrings[ts]

\* new Date(string): an unparsable string yields Invalid Date.
ParseDate(s) ==
  IF \E i \in 1..Len(IsoStrings) : IsoStrings[i] = s
  THEN CHOOSE i \in 1..Len(IsoStrings) : IsoStrings[i] = s
  ELSE InvalidDate

\* The vector the Embedding Provider returns for a text; an empty vector
\* is <<>>.
Embed(text) == <<text>>

\* all sequences over S of length at most n
RECURSIVE SeqsUpTo(_, _)
SeqsUpTo(S, n) ==
  IF n = 0 THEN {<<>>}
  ELSE SeqsUpTo(S, n - 1) \cup
       {Append(q, x) : q \in {r \in SeqsUpTo(S, n - 1) : Len(r) = n - 1},
                       x \in S}

\* Object spread: keys present in g override keys of f.
Spread(f, g) ==
  [k \in DOMAIN f |-> IF g[k] # NoKey THEN g[k] ELSE f[k]]

\* memoryToDocument throws RangeError when memory.timestamp is Invalid Date.
memoryToDocumentThrows(memory) == memory.timestamp = InvalidDate

memoryToDocument(memory, embedding) ==
  [id |-> memory.id,
   embedding |-> embedding,
   document |-> memory.content,
   metadata |-> Spread([type |-> memory.type,
                        timestamp |-> toISOString(memory.timestamp),
                        topic |-> NoKey],
                       memory.metadata)]

documentToMemory(document) ==
  [id |-> document.id,
   type |-> document.metadata.type,
   content |-> document.document,
   timestamp |-> ParseDate(document.metadata.timestamp),
   metadata |-> [document.metadata EXCEPT !.type = NoKey,
                                          !.timestamp = NoKey],
   embedding |-> IF Len(document.embedding) > 0
                 THEN document.embedding ELSE <<>>]

\* ------------------------------------------------------------------------
\* The failure table: a Map in insertion order
\* ------------------------------------------------------------------------
MapIndex(F, id) ==
  IF \E i \in 1..Len(F) : F[i].memoryId = id
  THEN CHOOSE i \in 1..Len(F) : F[i].memoryId = id
  ELSE 0

MapHas(F, id) == MapIndex(F, id) # 0

MapKeys(F) == {F[i].memoryId : i \in 1..Len(F)}

MapGet(F, id) == F[MapIndex(F, id)]

\* Map.prototype.set keeps the position of an existing key.
MapSet(F, id, rec) ==
  IF MapHas(F, id)
  THEN [F EXCEPT ![MapIndex(F, id)] = rec]
  ELSE Append(F, rec)

MapDelete(F, id) ==
  IF MapHas(F, id)
  THEN LET p == MapIndex(F, id)
       IN  [i \in 1..(Len(F) - 1) |-> IF i < p THEN F[i] ELSE F[i + 1]]
  ELSE F

FailedEmbeddingCounted(id, content, error, retryCount) ==
  [memoryId |-> id, content |-> content, error |-> error,
   retryCount |-> retryCount + 1]

FailedEmbedding(id, content, error, retryCount) ==
  [memoryId |-> id, content |-> content, error |-> error,
   retryCount |-> retryCount]

\* ------------------------------------------------------------------------
\* State
\* ------------------------------------------------------------------------
VARIABLES
  docs,              \* the collection: id -> ChromaDocument
  failedEmbeddings,  \* ChromaMemoryStore.failedEmbeddings
  nextGen,           \* number of ids handed out by uuidv7
  tasks              \* the in-flight call of every caller

vars == <<docs, failedEmbeddings, nextGen, tasks>>

IdleTask ==
  [op |-> "none", pc |-> "idle",
   mem |-> NoMem, id |-> NoId, content |-> "",
   emb |-> <<>>, doc |-> NoDoc, seen |-> <<>>,
   batch |-> <<>>, idx |-> 0,
   successful |-> <<>>, failed |-> <<>>, total |-> 0,
   nxt |-> 0, attached |-> FALSE, maxRetries |-> 0,
   result |-> "none", error |-> "", ret |-> <<>>,
   nEmb |-> 0, nStore |-> 0, embFailed |-> FALSE, storeFailed |-> FALSE,
   wrote |-> FALSE, log |-> <<>>, pre |-> {}, prev |-> NoMem,
   query |-> NoQuery, hits |-> <<>>,
   ids |-> <<>>, rejected |-> {}, returned |-> <<>>,
   args |-> NoArgs, reason |-> NoReason, estimatedTokens |-> 0,
   texts |-> <<>>, batchSize |-> 0, sent |-> <<>>, maxSent |-> 0,
   missing |-> FALSE, permuted |-> FALSE,
   tool |-> "", success |-> "none", invoked |-> FALSE, earlier |-> 0]

Init ==
  /\ docs = [i \in {} |-> NoDoc]
  /\ failedEmbeddings = <<>>
  /\ nextGen = 0
  /\ tasks = [t \in Tasks |-> IdleTask]

Free(t) == tasks[t].pc \in {"idle", "done"}

\* A call that has returned keeps its arguments and its result; the locals
\* are gone.
Finish(T) == [T EXCEPT !.pc = "done", !.doc = NoDoc, !.seen = <<>>,
                       !.emb = <<>>, !.attached = FALSE]

\* A Document Store write: the document is stored under its id.
PutDoc(D, document) ==
  [i \in DOMAIN D \cup {document.id} |->
     IF i = document.id THEN document ELSE D[i]]

\* collection.update changes only documents that exist.
UpdateDoc(D, document) ==
  IF document.id \in DOMAIN D THEN PutDoc(D, document) ELSE D

RemoveDocs(D, ids) == [i \in DOMAIN D \ ids |-> D[i]]

\* A Map.set or Map.delete on key id by another call: an in-flight
\* reprocessFailedEmbeddings iterator keeps its place, and the record
\* object it holds for that key is no longer the one in the Map.
Bump(T, id, pos) ==
  IF T.op = "reprocessFailedEmbeddings" /\ T.pc # "done"
  THEN [T EXCEPT !.nxt = IF pos > 0 /\ pos < T.nxt THEN T.nxt - 1 ELSE T.nxt,
                 !.attached = IF T.id = id THEN FALSE ELSE T.attached]
  ELSE T

\* tasks' when call t moves to newT and deletes key id from the Map
TasksAfterDelete(t, newT, id) ==
  [u \in Tasks |-> IF u = t THEN newT
                   ELSE Bump(tasks[u], id, MapIndex(failedEmbeddings, id))]

\* tasks' when call t moves to newT and sets key id in the Map
TasksAfterSet(t, newT, id) ==
  [u \in Tasks |-> IF u = t THEN newT ELSE Bump(tasks[u], id, 0)]

\* ------------------------------------------------------------------------
\* ChromaMemoryStore.storeMemory, and its callers storeMemories and
\* MemoryService.captureConversation
\* ------------------------------------------------------------------------
maxConversationLength == 50000

Undefined == "<undefined>"
NotAString == "<number>"
LongText == "<long>"

\* String.prototype.length of a conversation text
Length(text) ==
  IF text = LongText THEN maxConversationLength + 1
  ELSE IF text = "" THEN 0 ELSE 2

\* variant: the length of the conversation is not checked
validateConversationInputThrowsNoLimit(conversation) ==
  \/ conversation = Undefined
  \/ conversation = ""
  \/ conversation = NotAString

\* validateConversationInput: TRUE when it throws
validateConversationInputThrows(conversation) ==
  \/ conversation = Undefined
  \/ conversation = ""
  \/ conversation = NotAString
  \/ Length(conversation) > maxConversationLength

\* const memoryId = memory.id || this.generateMemoryId()
AssignId(m, g) == IF m.id # NoId THEN m.id ELSE GenIds[g + 1]

GenAfter(m, g) == IF m.id # NoId THEN g ELSE g + 1

\* storeMemory up to its first await (the Embedding Provider call)
BeginStore(T, m, g) ==
  [T EXCEPT !.pc = "store_embed",
            !.mem = [m EXCEPT !.id = AssignId(m, g)],
            !.id = AssignId(m, g),
            !.nEmb = @ + 1,
            !.embFailed = FALSE,
            !.error = "",
            !.doc = NoDoc]

HasNextItem(T) == T.op = "storeMemories" /\ T.idx < Len(T.batch)

\* results.successful.push(memory.id || 'unknown')
ReportedId(m) == IF m.id # NoId THEN m.id ELSE "unknown"

\* VyToolHandlers.handleToolError: the structured failure result of the tool
handleToolError(T) ==
  [T EXCEPT !.result = "ok", !.success = "false", !.ret = <<>>,
            !.total = 0, !.estimatedTokens = 0,
            !.reason = IF T.tool = "get_context"
                       THEN [NoReason EXCEPT !.text = "Error"] ELSE @]

\* What a tool handler makes of the MemoryService call it awaited: the
\* result is returned as it is (success: true), an exception goes to
\* handleToolError. A call made on the MemoryService directly is left alone.
ToolResult(T) ==
  IF T.tool = "" \/ T.pc # "done" \/ T.success # "none" THEN T
  ELSE IF T.result = "ok" THEN [T EXCEPT !.success = "true"]
  ELSE handleToolError(T)

\* storeMemory returns (ok) or throws (~ok) to its caller; the caller runs
\* on to its own next await or to its end.
StoreReturn(T0, ok, err, g) ==
  LET T == [T0 EXCEPT !.log = Append(@, [id |-> T0.id,
                                         embFailed |-> T0.embFailed,
                                         stored |-> ok])]
  IN
  CASE T.op = "storeMemory" ->
         Finish([T EXCEPT !.result = IF ok THEN "ok" ELSE "error",
                   !.error = IF ok THEN "" ELSE err])
    [] T.op = "captureConversation" ->
         ToolResult(
           Finish([T EXCEPT !.result = IF ok THEN "ok" ELSE "error",
                     !.error = IF ok THEN "" ELSE "ToolExecutionError",
                     !.ret = IF ok THEN <<T.id>> ELSE <<>>]))
    [] T.op = "storeMemories" ->
         LET R == IF ok
                  THEN [T EXCEPT !.successful =
                                   Append(@, ReportedId(T.batch[T.idx]))]
                  ELSE [T EXCEPT !.failed =
                                   Append(@, [id |-> ReportedId(T.batch[T.idx]),
                                              error |-> err])]
         IN  IF HasNextItem(T)
             THEN BeginStore([R EXCEPT !.idx = @ + 1], T.batch[T.idx + 1], g)
             ELSE Finish([R EXCEPT !.result = "ok", !.error = ""])

GenAfterStore(T, g) ==
  IF HasNextItem(T) THEN GenAfter(T.batch[T.idx + 1], g) ELSE g

NewCall(op) ==
  [IdleTask EXCEPT !.op = op, !.pre = MapKeys(failedEmbeddings)]

storeMemory(t, m) ==
  /\ Free(t)
  /\ m.id = NoId => nextGen < Len(GenIds)
  /\ tasks' = [tasks EXCEPT ![t] = BeginStore(NewCall("storeMemory"), m, nextGen)]
  /\ nextGen' = GenAfter(m, nextGen)
  /\ UNCHANGED <<docs, failedEmbeddings>>

NoIdCount(batch) == Cardinality({i \in 1..Len(batch) : batch[i].id = NoId})

storeMemories(t, batch) ==
  /\ Free(t)
  /\ NoIdCount(batch) <= Len(GenIds) - nextGen
  /\ LET T == [NewCall("storeMemories") EXCEPT !.batch = batch,
                                               !.total = Len(batch)]
     IN  IF Len(batch) = 0
         THEN /\ tasks' = [tasks EXCEPT ![t] =
                             Finish([T EXCEPT !.result = "ok"])]
              /\ nextGen' = nextGen
         ELSE /\ tasks' = [tasks EXCEPT ![t] =
                             BeginStore([T EXCEPT !.idx = 1], batch[1], nextGen)]
              /\ nextGen' = GenAfter(batch[1], nextGen)
  /\ UNCHANGED <<docs, failedEmbeddings>>

\* args.conversation.length is read before the try block
BeginCapture(T0, conversation, metadata, now, g) ==
  LET T == [T0 EXCEPT !.content = conversation] IN
  IF conversation = Undefined
  THEN ToolResult(Finish([T EXCEPT !.result = "error",
                                   !.error = "TypeError"]))
  ELSE IF validateConversationInputThrows(conversation)
  THEN ToolResult(Finish([T EXCEPT !.result = "error",
                                   !.error = "ToolExecutionError"]))
  ELSE BeginStore(T, [id |-> NoId, type |-> "conversation",
                      content |-> conversation,
                      timestamp |-> now,
                      metadata |-> metadata], g)

captureConversation(t, conversation, metadata, now) ==
  /\ Free(t)
  /\ ~validateConversationInputThrows(conversation) => nextGen < Len(GenIds)
  /\ tasks' = [tasks EXCEPT ![t] =
                 BeginCapture(NewCall("captureConversation"),
                              conversation, metadata, now, nextGen)]
  /\ nextGen' = IF validateConversationInputThrows(conversation)
                THEN nextGen ELSE nextGen + 1
  /\ UNCHANGED <<docs, failedEmbeddings>>

\* variant: an embedding failure is rethrown instead of being absorbed
StoreEmbedReturnRethrows(t, ok) ==
  LET T == tasks[t] IN
  /\ T.pc = "store_embed"
  /\ IF ok
     THEN /\ tasks' = [tasks EXCEPT ![t] =
                         [T EXCEPT !.pc = "store_add",
                                   !.emb = Embed(T.mem.content),
                                   !.doc = memoryToDocument(T.mem, Embed(T.mem.content)),
                                   !.nStore = @ + 1]]
          /\ nextGen' = nextGen
     ELSE /\ tasks' = [tasks EXCEPT ![t] =
                         StoreReturn([T EXCEPT !.embFailed = TRUE], FALSE,
                                     "ProviderError", nextGen)]
          /\ nextGen' = GenAfterStore(T, nextGen)
  /\ UNCHANGED <<docs, failedEmbeddings>>

\* generateEmbedding(memory.content) settles
StoreEmbedReturn(t, ok) ==
  LET T == tasks[t] IN
  /\ T.pc = "store_embed"
  /\ IF memoryToDocumentThrows(T.mem)
     THEN /\ tasks' = [tasks EXCEPT ![t] = StoreReturn(T, FALSE, "RangeError", nextGen)]
          /\ nextGen' = GenAfterStore(T, nextGen)
     ELSE /\ tasks' = [tasks EXCEPT ![t] =
               IF ok
               THEN [T EXCEPT !.pc = "store_add",
                              !.emb = Embed(T.mem.content),
                              !.doc = memoryToDocument(T.mem, Embed(T.mem.content)),
                              !.nStore = @ + 1]
               ELSE [T EXCEPT !.pc = "store_add_noemb",
                              !.embFailed = TRUE,
                              !.error = "ProviderError",
                              !.doc = memoryToDocument(T.mem, <<>>),
                              !.nStore = @ + 1]]
          /\ nextGen' = nextGen
  /\ UNCHANGED <<docs, failedEmbeddings>>

\* addDocuments of the embedded document settles
StoreAddReturn(t, ok) ==
  LET T == tasks[t] IN
  /\ T.pc = "store_add"
  /\ IF ok
     THEN /\ docs' = PutDoc(docs, T.doc)
          /\ failedEmbeddings' = MapDelete(failedEmbeddings, T.id)
          /\ tasks' = TasksAfterDelete(t, StoreReturn(T, TRUE, "", nextGen), T.id)
          /\ nextGen' = GenAfterStore(T, nextGen)
     ELSE /\ tasks' = [tasks EXCEPT ![t] =
                         [T EXCEPT !.pc = "store_add_noemb",
                                   !.storeFailed = TRUE,
                                   !.error = "StoreError",
                                   !.doc = memoryToDocument(T.mem, <<>>),
                                   !.nStore = @ + 1]]
          /\ UNCHANGED <<docs, failedEmbeddings, nextGen>>

\* addDocuments of the document without embedding settles (catch block)
StoreAddNoEmbReturn(t, ok) ==
  LET T == tasks[t] IN
  /\ T.pc = "store_add_noemb"
  /\ IF ok
     THEN /\ docs' = PutDoc(docs, T.doc)
          /\ failedEmbeddings' =
               MapSet(failedEmbeddings, T.id,
                      FailedEmbedding(T.id, T.mem.content, T.error, 0))
          /\ tasks' = TasksAfterSet(t, StoreReturn(T, TRUE, "", nextGen), T.id)
          /\ nextGen' = GenAfterStore(T, nextGen)
     ELSE /\ tasks' = [tasks EXCEPT ![t] =
                         StoreReturn([T EXCEPT !.storeFailed = TRUE], FALSE,
                                     "StoreError", nextGen)]
          /\ nextGen' = GenAfterStore(T, nextGen)
          /\ UNCHANGED <<docs, failedEmbeddings>>

\* ------------------------------------------------------------------------
\* ChromaMemoryStore.getMemory, updateMemory, deleteMemory
\* ------------------------------------------------------------------------
\* the memory the caller's preceding storeMemory call stored under id
JustStored(T, id) ==
  IF T.op = "storeMemory" /\ T.pc = "done" /\ T.result = "ok" /\ T.id = id
  THEN T.mem ELSE NoMem

getMemory(t, id) ==
  /\ Free(t)
  /\ tasks' = [tasks EXCEPT ![t] =
                 [NewCall("getMemory") EXCEPT !.pc = "get_read", !.id = id,
                                              !.prev = JustStored(tasks[t], id),
                                              !.nStore = 1]]
  /\ UNCHANGED <<docs, failedEmbeddings, nextGen>>

\* getDocuments settles
GetReturn(t, ok) ==
  LET T == tasks[t] IN
  /\ T.pc = "get_read"
  /\ tasks' = [tasks EXCEPT ![t] =
       IF ok
       THEN Finish([T EXCEPT !.result = "ok",
                      !.ret = IF T.id \in DOMAIN docs
                              THEN <<documentToMemory(docs[T.id])>>
                              ELSE <<>>])
       ELSE Finish([T EXCEPT !.result = "error",
                      !.storeFailed = TRUE, !.error = "StoreError"])]
  /\ UNCHANGED <<docs, failedEmbeddings, nextGen>>

\* updates.content = "" stands for an update without a content field
updateMemory(t, id, content) ==
  /\ Free(t)
  /\ MapHas(failedEmbeddings, id) =>
       MapGet(failedEmbeddings, id).retryCount < MaxRetryCount
  /\ tasks' = [tasks EXCEPT ![t] =
                 [NewCall("updateMemory") EXCEPT !.pc = "upd_get", !.id = id,
                                                 !.content = content,
                                                 !.nStore = 1]]
  /\ UNCHANGED <<docs, failedEmbeddings, nextGen>>

\* const updated = { ...existing, ...updates, id }
Merged(existing, id, content) ==
  [id |-> id, type |-> existing.type,
   content |-> IF content # "" THEN content ELSE existing.content,
   timestamp |-> existing.timestamp, metadata |-> existing.metadata]

\* memoryToDocument(updated, embedding) followed by the updateDocuments call
UpdateWrite(T, embedding) ==
  IF memoryToDocumentThrows(T.mem)
  THEN Finish([T EXCEPT !.result = "error", !.error = "RangeError"])
  ELSE [T EXCEPT !.pc = "upd_write",
                 !.doc = memoryToDocument(T.mem, embedding),
                 !.nStore = @ + 1]

\* variant: an update of a missing id is ignored without an error
UpdateGetReturnIgnoresMissing(t, ok) ==
  LET T == tasks[t] IN
  /\ T.pc = "upd_get"
  /\ tasks' = [tasks EXCEPT ![t] =
       IF ~ok
       THEN Finish([T EXCEPT !.result = "error",
                      !.storeFailed = TRUE, !.error = "StoreError"])
       ELSE IF T.id \notin DOMAIN docs
       THEN Finish([T EXCEPT !.result = "ok"])
       ELSE LET existing == documentToMemory(docs[T.id])
                U == [T EXCEPT !.seen = <<docs[T.id]>>,
                               !.mem = Merged(existing, T.id, T.content),
                               !.emb = existing.embedding]
            IN  IF T.content # "" /\ T.content # existing.content
                THEN [U EXCEPT !.pc = "upd_embed", !.nEmb = @ + 1]
                ELSE UpdateWrite(U, existing.embedding)]
  /\ UNCHANGED <<docs, failedEmbeddings, nextGen>>

\* the getMemory(id) at the head of updateMemory settles
UpdateGetReturn(t, ok) ==
  LET T == tasks[t] IN
  /\ T.pc = "upd_get"
  /\ tasks' = [tasks EXCEPT ![t] =
       IF ~ok
       THEN Finish([T EXCEPT !.result = "error",
                      !.storeFailed = TRUE, !.error = "StoreError"])
       ELSE IF T.id \notin DOMAIN docs
       THEN Finish([T EXCEPT !.result = "error", !.error = "NotFound"])
       ELSE LET existing == documentToMemory(docs[T.id])
                U == [T EXCEPT !.seen = <<docs[T.id]>>,
                               !.mem = Merged(existing, T.id, T.content),
                               !.emb = existing.embedding]
            IN  IF T.content # "" /\ T.content # existing.content
                THEN [U EXCEPT !.pc = "upd_embed", !.nEmb = @ + 1]
                ELSE UpdateWrite(U, existing.embedding)]
  /\ UNCHANGED <<docs, failedEmbeddings, nextGen>>

UpdateRetryCount(F, id) ==
  (IF MapHas(F, id) THEN MapGet(F, id).retryCount ELSE 0) + 1

\* generateEmbedding(updates.content) settles
UpdateEmbedReturn(t, ok) ==
  LET T == tasks[t] IN
  /\ T.pc = "upd_embed"
  /\ IF ok
     THEN /\ failedEmbeddings' = MapDelete(failedEmbeddings, T.id)
          /\ tasks' = TasksAfterDelete(t,
                        UpdateWrite([T EXCEPT !.emb = Embed(T.content)],
                                    Embed(T.content)), T.id)
     ELSE /\ failedEmbeddings' =
               MapSet(failedEmbeddings, T.id,
                      FailedEmbedding(T.id, T.content, "ProviderError",
                                      UpdateRetryCount(failedEmbeddings, T.id)))
          /\ tasks' = TasksAfterSet(t,
                        UpdateWrite([T EXCEPT !.embFailed = TRUE], T.emb), T.id)
  /\ UNCHANGED <<docs, nextGen>>

\* updateDocuments settles
UpdateWriteReturn(t, ok) ==
  LET T == tasks[t] IN
  /\ T.pc = "upd_write"
  /\ IF ok
     THEN /\ docs' = UpdateDoc(docs, T.doc)
          /\ tasks' = [tasks EXCEPT ![t] =
                         Finish([T EXCEPT !.result = "ok",
                                   !.wrote = TRUE])]
     ELSE /\ docs' = docs
          /\ tasks' = [tasks EXCEPT ![t] =
                         Finish([T EXCEPT !.result = "error",
                                   !.storeFailed = TRUE,
                                   !.error = "StoreError"])]
  /\ UNCHANGED <<failedEmbeddings, nextGen>>

deleteMemory(t, id) ==
  /\ Free(t)
  /\ tasks' = [tasks EXCEPT ![t] =
                 [NewCall("deleteMemory") EXCEPT !.pc = "del_write", !.id = id,
                                                 !.nStore = 1]]
  /\ UNCHANGED <<docs, failedEmbeddings, nextGen>>

\* deleteDocuments settles
DeleteReturn(t, ok) ==
  LET T == tasks[t] IN
  /\ T.pc = "del_write"
  /\ IF ok
     THEN /\ docs' = RemoveDocs(docs, {T.id})
          /\ failedEmbeddings' = MapDelete(failedEmbeddings, T.id)
          /\ tasks' = TasksAfterDelete(t,
                        Finish([T EXCEPT !.result = "ok"]), T.id)
     ELSE /\ tasks' = [tasks EXCEPT ![t] =
                         Finish([T EXCEPT !.result = "error",
                                   !.storeFailed = TRUE,
                                   !.error = "StoreError"])]
          /\ UNCHANGED <<docs, failedEmbeddings>>
  /\ UNCHANGED nextGen

\* ------------------------------------------------------------------------
\* ChromaMemoryStore.deleteMemories, getMemories
\* ------------------------------------------------------------------------
\* variant: only the first id of the list is cleared
MapDeleteFirstOnly(F, ids) ==
  IF Len(ids) = 0 THEN F ELSE MapDelete(F, Head(ids))

RECURSIVE MapDeleteAll(_, _)
\* ids.forEach(id => this.failedEmbeddings.delete(id))
MapDeleteAll(F, ids) ==
  IF Len(ids) = 0 THEN F
  ELSE MapDeleteAll(MapDelete(F, Head(ids)), Tail(ids))

RECURSIVE BumpAll(_, _, _)
\* the effect of that forEach on another call's Map iterator
BumpAll(T, F, ids) ==
  IF Len(ids) = 0 THEN T
  ELSE BumpAll(Bump(T, Head(ids), MapIndex(F, Head(ids))),
               MapDelete(F, Head(ids)), Tail(ids))

deleteMemories(t, ids) ==
  /\ Free(t)
  /\ tasks' = [tasks EXCEPT ![t] =
       IF Len(ids) = 0
       THEN Finish([NewCall("deleteMemories") EXCEPT !.result = "ok"])
       ELSE [NewCall("deleteMemories") EXCEPT !.pc = "delm_write",
                                              !.ids = ids, !.nStore = 1]]
  /\ UNCHANGED <<docs, failedEmbeddings, nextGen>>

\* the one deleteDocuments call for the whole list settles; rejected are
\* the ids whose deletion the Document Store fails, and the call throws
\* when there is any
DeleteManyReturn(t, rejected) ==
  LET T == tasks[t]
      all == [i \in 1..Len(T.ids) |-> T.ids[i]]
  IN
  /\ T.pc = "delm_write"
  /\ rejected \subseteq {T.ids[i] : i \in 1..Len(T.ids)}
  /\ IF rejected = {}
     THEN /\ docs' = RemoveDocs(docs, {T.ids[i] : i \in 1..Len(T.ids)})
          /\ failedEmbeddings' = MapDeleteAll(failedEmbeddings, T.ids)
          /\ tasks' = [u \in Tasks |->
               IF u = t
               THEN Finish([T EXCEPT !.result = "ok", !.successful = all,
                                     !.total = Len(T.ids)])
               ELSE BumpAll(tasks[u], failedEmbeddings, T.ids)]
     ELSE /\ tasks' = [tasks EXCEPT ![t] =
               Finish([T EXCEPT !.result = "ok",
                         !.rejected = rejected,
                         !.storeFailed = TRUE,
                         !.failed = [i \in 1..Len(T.ids) |->
                                       [id |-> T.ids[i], error |-> "StoreError"]],
                         !.total = Len(T.ids)])]
          /\ UNCHANGED <<docs, failedEmbeddings>>
  /\ UNCHANGED nextGen

\* the null of getMemories
Null == NoMem

\* variant: the i-th result is taken from the i-th returned document
getMemoriesResultPositional(ids, documents) ==
  [i \in 1..Len(ids) |->
     IF i <= Len(documents) THEN documentToMemory(documents[i]) ELSE Null]

\* new Map(documents.map(doc => [doc.id, doc])), then ids.map(...)
getMemoriesResult(ids, documents) ==
  [i \in 1..Len(ids) |->
     LET at == {j \in 1..Len(documents) : documents[j].id = ids[i]}
     IN  IF at = {} THEN Null
         ELSE documentToMemory(documents[CHOOSE j \in at :
                                           \A k \in at : k <= j])]

getMemories(t, ids) ==
  /\ Free(t)
  /\ tasks' = [tasks EXCEPT ![t] =
       IF Len(ids) = 0
       THEN Finish([NewCall("getMemories") EXCEPT !.result = "ok"])
       ELSE [NewCall("getMemories") EXCEPT !.pc = "getm_read",
                                           !.ids = ids, !.nStore = 1]]
  /\ UNCHANGED <<docs, failedEmbeddings, nextGen>>

\* the documents the store holds among ids, in every order it may
\* return them
StoredAmong(ids) ==
  LET found == {ids[i] : i \in 1..Len(ids)} \cap DOMAIN docs
  IN  {q \in SeqsUpTo(found, Cardinality(found)) :
         /\ Len(q) = Cardinality(found)
         /\ {q[i] : i \in 1..Len(q)} = found}

\* getDocuments(ids) settles with the documents in the order given by order
GetManyReturn(t, ok, order) ==
  LET T == tasks[t]
      documents == [i \in 1..Len(order) |-> docs[order[i]]]
  IN
  /\ T.pc = "getm_read"
  /\ order \in StoredAmong(T.ids)
  /\ tasks' = [tasks EXCEPT ![t] =
       IF ok
       THEN Finish([T EXCEPT !.result = "ok", !.returned = order,
                      !.ret = getMemoriesResult(T.ids, documents)])
       ELSE Finish([T EXCEPT !.result = "error", !.storeFailed = TRUE,
                      !.error = "StoreError"])]
  /\ UNCHANGED <<docs, failedEmbeddings, nextGen>>

\* ------------------------------------------------------------------------
\* ChromaMemoryStore.reprocessFailedEmbeddings
\* ------------------------------------------------------------------------
\* variant: an entry is given up only above maxRetries
AtMaxRetriesStrict(failedEmbedding, maxRetries) ==
  failedEmbedding.retryCount > maxRetries

\* failedEmbedding.retryCount >= maxRetries
AtMaxRetries(failedEmbedding, maxRetries) ==
  failedEmbedding.retryCount >= maxRetries

RECURSIVE Advance(_, _)
\* the for-of loop from entry T.nxt up to its next await, or to the return
Advance(T, F) ==
  IF T.nxt > Len(F)
  THEN Finish([T EXCEPT !.result = "ok", !.attached = FALSE])
  ELSE IF AtMaxRetries(F[T.nxt], T.maxRetries)
  THEN Advance([T EXCEPT !.failed = Append(@, [id |-> F[T.nxt].memoryId,
                                               error |-> "MaxRetries"]),
                         !.nxt = @ + 1], F)
  ELSE [T EXCEPT !.pc = "rep_embed",
                 !.id = F[T.nxt].memoryId,
                 !.content = F[T.nxt].content,
                 !.attached = TRUE,
                 !.nxt = @ + 1,
                 !.nEmb = @ + 1]

\* variant: the loop allows one retry more than the caller asked for
BeginReprocessOneMore(T0, maxRetries, F) ==
  Advance([T0 EXCEPT !.maxRetries = maxRetries + 1,
                     !.total = Len(F),
                     !.nxt = 1], F)

\* reprocessFailedEmbeddings up to its first await, or to its return
BeginReprocess(T0, maxRetries, F) ==
  Advance([T0 EXCEPT !.maxRetries = maxRetries,
                     !.total = Len(F),
                     !.nxt = 1], F)

reprocessFailedEmbeddings(t, maxRetries) ==
  /\ Free(t)
  /\ tasks' = [tasks EXCEPT ![t] =
       BeginReprocess(NewCall("reprocessFailedEmbeddings"), maxRetries,
                      failedEmbeddings)]
  /\ UNCHANGED <<docs, failedEmbeddings, nextGen>>

\* A caller that calls reprocessFailedEmbeddings(MaxRetryCount) again and
\* again; the number of provider calls of its earlier passes is kept.
reprocessAgain(t) ==
  /\ Free(t)
  /\ tasks' = [tasks EXCEPT ![t] =
       BeginReprocess([NewCall("reprocessFailedEmbeddings")
                         EXCEPT !.earlier = tasks[t].earlier + tasks[t].nEmb],
                      MaxRetryCount, failedEmbeddings)]
  /\ UNCHANGED <<docs, failedEmbeddings, nextGen>>

\* variant: the error is replaced and the count is left as it was
RetriedKeepsCount(F, T, err) ==
  IF T.attached /\ MapHas(F, T.id)
  THEN [F EXCEPT ![MapIndex(F, T.id)] = [@ EXCEPT !.error = err]]
  ELSE F

\* failedEmbedding.retryCount++; failedEmbedding.error = String(error): the
\* record object the loop holds is changed, which shows in the Map only
\* while that object is still the Map's entry
Retried(F, T, err) ==
  IF T.attached /\ MapHas(F, T.id)
  THEN [F EXCEPT ![MapIndex(F, T.id)] =
          [@ EXCEPT !.retryCount = @ + 1, !.error = err]]
  ELSE F

\* the catch block of the loop body, then on with the loop
ReprocessCatch(t, err) ==
  LET T == [tasks[t] EXCEPT !.storeFailed = @ \/ err = "StoreError"]
      F == Retried(failedEmbeddings, T, err)
  IN  /\ failedEmbeddings' = F
      /\ tasks' = [tasks EXCEPT ![t] =
           Advance([T EXCEPT !.failed = Append(@, [id |-> T.id, error |-> err]),
                             !.log = Append(@, [id |-> T.id, embFailed |-> T.embFailed,
                                                stored |-> FALSE])],
                   F)]
      /\ UNCHANGED <<docs, nextGen>>

\* generateEmbedding(failedEmbedding.content) settles
ReprocessEmbedReturn(t, ok) ==
  LET T == tasks[t] IN
  /\ T.pc = "rep_embed"
  /\ IF ok
     THEN /\ tasks' = [tasks EXCEPT ![t] =
                         [T EXCEPT !.pc = "rep_get", !.emb = Embed(T.content),
                                   !.embFailed = FALSE, !.nStore = @ + 1]]
          /\ UNCHANGED <<docs, failedEmbeddings, nextGen>>
     ELSE /\ tasks[t].pc = "rep_embed"
          /\ LET U == [T EXCEPT !.embFailed = TRUE]
                 F == Retried(failedEmbeddings, T, "ProviderError")
             IN  /\ failedEmbeddings' = F
                 /\ tasks' = [tasks EXCEPT ![t] =
                      Advance([U EXCEPT !.failed = Append(@, [id |-> T.id,
                                                   error |-> "ProviderError"]),
                                        !.log = Append(@, [id |-> T.id,
                                                           embFailed |-> TRUE,
                                                           stored |-> FALSE])],
                              F)]
                 /\ UNCHANGED <<docs, nextGen>>

\* the getMemory(memoryId) inside the loop settles
ReprocessGetReturn(t, ok) ==
  LET T == tasks[t] IN
  /\ T.pc = "rep_get"
  /\ IF ~ok
     THEN ReprocessCatch(t, "StoreError")
     ELSE IF T.id \notin DOMAIN docs
     THEN /\ tasks' = [tasks EXCEPT ![t] =
                         Advance([T EXCEPT !.log = Append(@, [id |-> T.id,
                                                     embFailed |-> FALSE,
                                                     stored |-> FALSE])],
                                 failedEmbeddings)]
          /\ UNCHANGED <<docs, failedEmbeddings, nextGen>>
     ELSE IF memoryToDocumentThrows(documentToMemory(docs[T.id]))
     THEN ReprocessCatch(t, "RangeError")
     ELSE /\ tasks' = [tasks EXCEPT ![t] =
                         [T EXCEPT !.pc = "rep_write",
                                   !.seen = <<docs[T.id]>>,
                                   !.doc = memoryToDocument(
                                             documentToMemory(docs[T.id]), T.emb),
                                   !.nStore = @ + 1]]
          /\ UNCHANGED <<docs, failedEmbeddings, nextGen>>

\* the iterator position after the loop body deleted key id itself
SelfDeleted(T, F, id) ==
  [T EXCEPT !.nxt = IF MapHas(F, id) /\ MapIndex(F, id) < T.nxt
                    THEN T.nxt - 1 ELSE T.nxt]

\* updateDocuments inside the loop settles
ReprocessWriteReturn(t, ok) ==
  LET T == tasks[t] IN
  /\ T.pc = "rep_write"
  /\ IF ~ok
     THEN ReprocessCatch(t, "StoreError")
     ELSE /\ docs' = UpdateDoc(docs, T.doc)
          /\ failedEmbeddings' = MapDelete(failedEmbeddings, T.id)
          /\ tasks' = TasksAfterDelete(t,
               Advance([SelfDeleted(T, failedEmbeddings, T.id)
                          EXCEPT !.successful = Append(@, T.id),
                                 !.wrote = TRUE,
                                 !.log = Append(@, [id |-> T.id,
                                                    embFailed |-> FALSE,
                                                    stored |-> TRUE])],
                       MapDelete(failedEmbeddings, T.id)),
               T.id)
          /\ nextGen' = nextGen

\* ------------------------------------------------------------------------
\* ChromaMemoryStore.searchMemories
\* Scores and distances are in hundredths: 100 is the score 1.0.
\* ------------------------------------------------------------------------
One == 100

\* the distances array has no entry for the hit
NoDistance == -1000

\* ids of the hits the store returns, by rank
HitIds == <<"a", "b", "u1">>

\* the rank of a returned id
HitIndex(id) == CHOOSE i \in 1..Len(HitIds) : HitIds[i] = id

\* String.prototype.trim
Trim(text) ==
  CASE text = " " -> ""
    [] text = " q " -> "q"
    [] OTHER -> text

\* variant: only a missing query field counts as empty
QueryIsEmptyOnlyAbsent(query) == query.query = NoText

\* !query.query || !query.query.trim()
QueryIsEmpty(query) ==
  query.query = NoText \/ query.query = "" \/ Trim(query.query) = ""

\* query.limit || 10
EffectiveLimit(query) == IF query.limit = 0 THEN 10 ELSE query.limit

Max(x, y) == IF x >= y THEN x ELSE y
Min(x, y) == IF x <= y THEN x ELSE y

\* results.distances?.[0]?.[i] || 1.0
DistanceOrDefault(d) == IF d = NoDistance \/ d = 0 THEN One ELSE d

\* MemoryService.distanceToRelevanceScore: Math.max(0, Math.min(1, 1 - d))
distanceToRelevanceScore(d) == Max(0, Min(One, One - d))

\* Math.max(0, 1 - distance)
Similarity(d) == Max(0, One - DistanceOrDefault(d))

\* query.minRelevanceScore && similarity < query.minRelevanceScore
BelowThreshold(query, similarity) ==
  /\ query.minRelevanceScore # NoScore
  /\ query.minRelevanceScore # 0
  /\ similarity < query.minRelevanceScore

\* the loop over results.ids[0]
SearchResults(query, hits) ==
  LET scored == [i \in 1..Len(hits) |->
                   [id |-> HitIds[i],
                    relevanceScore |-> Similarity(hits[i])]]
      Keep(r) == ~BelowThreshold(query, r.relevanceScore)
  IN  SelectSeq(scored, Keep)

\* what the Document Store holds for the hit of each rank
HitTypes == <<"conversation", "fact", "insight">>
HitTimestamps == <<1, 2, 1>>
HitContents == <<"c1", LongText, "c2">>

\* JSON.stringify(memory).length - contentLength of a context memory: the
\* keys, the relevance score, the timestamp and the type
SerializedOverhead == 96

RECURSIVE estimateTokens(_)
\* MemoryService.estimateTokens: Math.ceil((contentLength + metadataLength) / 4)
\* summed over the memories
estimateTokens(memories) ==
  IF Len(memories) = 0 THEN 0
  ELSE LET contentLength == Length(HitContents[HitIndex(Head(memories).id)])
           metadataLength == SerializedOverhead
       IN  ((contentLength + metadataLength + 3) \div 4)
             + estimateTokens(Tail(memories))

\* args.maxMemories || 5
EffectiveMaxMemories(args) ==
  IF args.maxMemories = 0 THEN 5 ELSE args.maxMemories

\* variant: nothing is said when no memory was selected
generateSelectionReasonSilent(args, selectedCount) ==
  LET by == IF args.currentQuery # NoText /\ args.currentQuery # ""
            THEN <<"searched for memories matching">>
            ELSE <<"selected most recent memories">>
      limited == IF args.maxMemories # 0 /\ selectedCount >= args.maxMemories
                 THEN <<"limited to maxMemories as requested">>
                 ELSE <<>>
  IN  IF selectedCount = 0
      THEN NoReason
      ELSE [text |-> "Selected", count |-> selectedCount,
            reasons |-> by \o limited]

\* MemoryService.generateSelectionReason
generateSelectionReason(args, selectedCount) ==
  LET by == IF args.currentQuery # NoText /\ args.currentQuery # ""
            THEN <<"searched for memories matching">>
            ELSE <<"selected most recent memories">>
      limited == IF args.maxMemories # 0 /\ selectedCount >= args.maxMemories
                 THEN <<"limited to maxMemories as requested">>
                 ELSE <<>>
  IN  IF selectedCount = 0
      THEN [text |-> "No relevant memories found matching the criteria",
            count |-> 0, reasons |-> <<>>]
      ELSE [text |-> "Selected", count |-> selectedCount,
            reasons |-> by \o limited]

\* searchMemories returns results (ok) or throws (~ok) to its caller, which
\* runs on to its end
SearchReturn(T, ok, results) ==
  CASE T.op = "searchMemories" ->
         Finish([T EXCEPT !.result = IF ok THEN "ok" ELSE "error",
                   !.error = IF ok THEN "" ELSE "SearchFailed",
                   !.ret = results])
    [] T.op = "searchMemory" ->
         ToolResult(
           Finish([T EXCEPT !.result = IF ok THEN "ok" ELSE "error",
                     !.error = IF ok THEN "" ELSE "ToolExecutionError",
                     !.total = Len(results),
                     !.ret = results]))
    [] T.op = "getContext" ->
         ToolResult(
           Finish([T EXCEPT !.result = IF ok THEN "ok" ELSE "error",
                     !.error = IF ok THEN "" ELSE "ToolExecutionError",
                     !.ret = results,
                     !.estimatedTokens = estimateTokens(results),
                     !.reason = IF ok
                                THEN generateSelectionReason(T.args,
                                                             Len(results))
                                ELSE NoReason]))

\* searchMemories up to its first await, or to its return for an empty query
BeginSearch(T, query) ==
  IF QueryIsEmpty(query)
  THEN SearchReturn([T EXCEPT !.query = query], TRUE, <<>>)
  ELSE [T EXCEPT !.pc = "srch_embed", !.query = query, !.nEmb = 1]

searchMemories(t, query) ==
  /\ Free(t)
  /\ tasks' = [tasks EXCEPT ![t] = BeginSearch(NewCall("searchMemories"), query)]
  /\ UNCHANGED <<docs, failedEmbeddings, nextGen>>

\* the SearchQuery that searchMemory builds from its args
SearchMemoryQuery(args) ==
  [query |-> args.query,
   limit |-> IF args.limit = 0 THEN 10 ELSE args.limit,
   minRelevanceScore |-> IF args.minRelevanceScore \in {NoScore, 0}
                         THEN 70 ELSE args.minRelevanceScore,
   types |-> args.types,
   timeRange |-> args.timeRange]

\* searchMemory up to its first await, or to its return;
\* args.query.substring(...) is evaluated before the try block
BeginSearchMemory(T0, args) ==
  LET T == [T0 EXCEPT !.args = args] IN
  IF args.query = Undefined
  THEN ToolResult(Finish([T EXCEPT !.result = "error",
                                   !.error = "TypeError"]))
  ELSE BeginSearch(T, SearchMemoryQuery(args))

searchMemory(t, args) ==
  /\ Free(t)
  /\ tasks' = [tasks EXCEPT ![t] =
                 BeginSearchMemory(NewCall("searchMemory"), args)]
  /\ UNCHANGED <<docs, failedEmbeddings, nextGen>>

\* the SearchQuery that getContext builds from its args
ContextQuery(args) ==
  IF args.currentQuery # NoText /\ args.currentQuery # ""
  THEN [query |-> args.currentQuery, limit |-> EffectiveMaxMemories(args),
        minRelevanceScore |-> 60]
  ELSE [query |-> NoText, limit |-> EffectiveMaxMemories(args),
        minRelevanceScore |-> 30]

getContext(t, args) ==
  /\ Free(t)
  /\ tasks' = [tasks EXCEPT ![t] =
       BeginSearch([NewCall("getContext") EXCEPT !.args = args],
                   ContextQuery(args))]
  /\ UNCHANGED <<docs, failedEmbeddings, nextGen>>

(***************************************************************************)
(* VyToolHandlers: the tool handlers in front of the MemoryService         *)
(***************************************************************************)

\* validateCaptureConversationArgs: TRUE when it throws
validateCaptureConversationArgsThrows(conversation) ==
  \/ conversation = Undefined
  \/ conversation = ""
  \/ conversation = NotAString
  \/ Trim(conversation) = ""

\* validateSearchMemoryArgs: TRUE when it throws (limit 0 and
\* minRelevanceScore NoScore stand for absent fields)
validateSearchMemoryArgsThrows(args) ==
  \/ args.query = Undefined
  \/ args.query = ""
  \/ Trim(args.query) = ""
  \/ args.limit # 0 /\ (args.limit < 1 \/ args.limit > 100)
  \/ args.minRelevanceScore # NoScore
       /\ (args.minRelevanceScore < 0 \/ args.minRelevanceScore > One)

\* validateGetContextArgs: TRUE when it throws (0 stands for an absent field)
validateGetContextArgsThrows(args) ==
  \/ args.maxMemories # 0 /\ (args.maxMemories < 1 \/ args.maxMemories > 50)
  \/ args.maxTokens # 0 /\ (args.maxTokens < 100 \/ args.maxTokens > 50000)

\* A handler call. The first statement, before the try block, logs fields
\* of args: with no argument object (present = FALSE) it throws a TypeError
\* that nothing catches.
ToolCall(op, tool) == [NewCall(op) EXCEPT !.tool = tool]

ArgsMissing(T) ==
  Finish([T EXCEPT !.result = "error", !.error = "TypeError"])

ArgsRejected(T) ==
  handleToolError(Finish([T EXCEPT !.result = "error",
                                   !.error = "Invalid arguments"]))

CaptureInvokes(present, conversation) ==
  /\ present
  /\ ~validateCaptureConversationArgsThrows(conversation)
  /\ ~validateConversationInputThrows(conversation)

toolCaptureConversation(t, present, conversation) ==
  /\ Free(t)
  /\ ~present => conversation = Undefined
  /\ CaptureInvokes(present, conversation) => nextGen < Len(GenIds)
  /\ LET T == [ToolCall("captureConversation", "capture_conversation")
                 EXCEPT !.content = conversation]
     IN  tasks' = [tasks EXCEPT ![t] =
           IF ~present THEN ArgsMissing(T)
           ELSE IF validateCaptureConversationArgsThrows(conversation)
           THEN ArgsRejected(T)
           ELSE BeginCapture([T EXCEPT !.invoked = TRUE],
                             conversation, NoMeta, 1, nextGen)]
  /\ nextGen' = IF CaptureInvokes(present, conversation)
                THEN nextGen + 1 ELSE nextGen
  /\ UNCHANGED <<docs, failedEmbeddings>>

toolSearchMemory(t, present, args) ==
  /\ Free(t)
  /\ ~present => args = NoArgs
  /\ LET T == [ToolCall("searchMemory", "search_memory")
                 EXCEPT !.args = args]
     IN  tasks' = [tasks EXCEPT ![t] =
           IF ~present THEN ArgsMissing(T)
           ELSE IF validateSearchMemoryArgsThrows(args)
           THEN ArgsRejected(T)
           ELSE BeginSearchMemory([T EXCEPT !.invoked = TRUE], args)]
  /\ UNCHANGED <<docs, failedEmbeddings, nextGen>>

toolGetContext(t, present, args) ==
  /\ Free(t)
  /\ ~present => args = NoArgs
  /\ LET T == [ToolCall("getContext", "get_context") EXCEPT !.args = args]
     IN  tasks' = [tasks EXCEPT ![t] =
           IF ~present THEN ArgsMissing(T)
           ELSE IF validateGetContextArgsThrows(args)
           THEN ArgsRejected(T)
           ELSE BeginSearch([T EXCEPT !.invoked = TRUE], ContextQuery(args))]
  /\ UNCHANGED <<docs, failedEmbeddings, nextGen>>

\* generateEmbedding(query.query) settles
SearchEmbedReturn(t, ok) ==
  LET T == tasks[t] IN
  /\ T.pc = "srch_embed"
  /\ tasks' = [tasks EXCEPT ![t] =
       IF ok
       THEN [T EXCEPT !.pc = "srch_query", !.nStore = 1]
       ELSE SearchReturn([T EXCEPT !.embFailed = TRUE], FALSE, <<>>)]
  /\ UNCHANGED <<docs, failedEmbeddings, nextGen>>

\* queryCollection settles: the store answers with at most nResults hits,
\* given here by their distances in rank order
SearchQueryReturn(t, ok, hits) ==
  LET T == tasks[t] IN
  /\ T.pc = "srch_query"
  /\ Len(hits) <= EffectiveLimit(T.query)
  /\ tasks' = [tasks EXCEPT ![t] =
       IF ok
       THEN SearchReturn([T EXCEPT !.hits = hits], TRUE,
                         SearchResults(T.query, hits))
       ELSE SearchReturn([T EXCEPT !.storeFailed = TRUE], FALSE, <<>>)]
  /\ UNCHANGED <<docs, failedEmbeddings, nextGen>>

\* ------------------------------------------------------------------------
\* Inputs
\* ------------------------------------------------------------------------
MetadataInputs ==
  {NoMeta,
   [NoMeta EXCEPT !.topic = "x"],
   [NoMeta EXCEPT !.type = "fact"],
   [NoMeta EXCEPT !.timestamp = "T2"],
   [NoMeta EXCEPT !.timestamp = "garbage"]}

StoreInputs ==
  [id : {"a"}, type : {"conversation"}, content : Contents,
   timestamp : {1},
   metadata : {NoMeta, [NoMeta EXCEPT !.timestamp = "garbage"]}]

ConvInputs ==
  [id : {"a"}, type : MemoryType, content : {"c1"},
   timestamp : Timestamps, metadata : MetadataInputs]

BatchItems ==
  [id : {"a", NoId}, type : {"conversation"}, content : {"c1"},
   timestamp : {1}, metadata : {NoMeta}]

Batches == SeqsUpTo(BatchItems, MaxBatch)

ConversationInputs == {"c1", Undefined, "", NotAString, LongText}

Distances == {-50, 0, 20, 40, 150, NoDistance}

HitLists == SeqsUpTo(Distances, MaxHits)

QueryInputs ==
  [query : {NoText, "", " ", "q", " q "}, limit : {0, 1, 2},
   minRelevanceScore : {NoScore, 0, 50, 75}]

\* ------------------------------------------------------------------------
\* Specifications
\* ------------------------------------------------------------------------
StoreSettles(t) ==
  \/ \E ok \in BOOLEAN : StoreEmbedReturn(t, ok)
  \/ \E ok \in BOOLEAN : StoreAddReturn(t, ok)
  \/ \E ok \in BOOLEAN : StoreAddNoEmbReturn(t, ok)

UpdateSettles(t) ==
  \/ \E ok \in BOOLEAN : UpdateGetReturn(t, ok)
  \/ \E ok \in BOOLEAN : UpdateEmbedReturn(t, ok)
  \/ \E ok \in BOOLEAN : UpdateWriteReturn(t, ok)

ReprocessSettles(t) ==
  \/ \E ok \in BOOLEAN : ReprocessEmbedReturn(t, ok)
  \/ \E ok \in BOOLEAN : ReprocessGetReturn(t, ok)
  \/ \E ok \in BOOLEAN : ReprocessWriteReturn(t, ok)

\* One caller, one call at a time, on one memory id.
Next ==
  \/ \E m \in StoreInputs : storeMemory(1, m)
  \/ \E c \in Contents \cup {""} : updateMemory(1, "a", c)
  \/ deleteMemory(1, "a")
  \/ getMemory(1, "a")
  \/ \E n \in 0..MaxRetryCount : reprocessFailedEmbeddings(1, n)
  \/ StoreSettles(1)
  \/ UpdateSettles(1)
  \/ ReprocessSettles(1)
  \/ \E ok \in BOOLEAN : DeleteReturn(1, ok)
  \/ \E ok \in BOOLEAN : GetReturn(1, ok)

Spec == Init /\ [][Next]_vars

\* Conversion: memories of every type and metadata shape, stored and read.
NextConv ==
  \/ \E m \in ConvInputs : storeMemory(1, m)
  \/ getMemory(1, "a")
  \/ StoreSettles(1)
  \/ \E ok \in BOOLEAN : GetReturn(1, ok)

SpecConv == Init /\ [][NextConv]_vars

\* Batches and captured conversations, with ids assigned by the store.
NextBatch ==
  \/ \E b \in Batches : storeMemories(1, b)
  \/ \E c \in ConversationInputs, md \in {NoMeta} :
       captureConversation(1, c, md, 1)
  \/ \E id \in {"a", "u1"} : deleteMemory(1, id)
  \/ \E n \in 0..MaxRetryCount : reprocessFailedEmbeddings(1, n)
  \/ StoreSettles(1)
  \/ ReprocessSettles(1)
  \/ \E ok \in BOOLEAN : DeleteReturn(1, ok)

SpecBatch == Init /\ [][NextBatch]_vars

\* Search.
NextSearch ==
  \/ \E q \in QueryInputs : searchMemories(1, q)
  \/ \E ok \in BOOLEAN : SearchEmbedReturn(1, ok)
  \/ \E ok \in BOOLEAN, hits \in HitLists : SearchQueryReturn(1, ok, hits)

SpecSearch == Init /\ [][NextSearch]_vars

\* Batch operations over two memory ids: store, delete, fetch, reprocess.
MultiIds == {"a", "b"}

MultiItems ==
  [id : MultiIds, type : {"conversation"}, content : {"c1"},
   timestamp : {1}, metadata : {NoMeta}]

MultiBatches == SeqsUpTo(MultiItems, MaxBatch)

IdLists == SeqsUpTo(MultiIds, MaxBatch)

NextMulti ==
  \/ \E b \in MultiBatches : storeMemories(1, b)
  \/ \E id \in MultiIds : deleteMemory(1, id)
  \/ \E ids \in IdLists : deleteMemories(1, ids)
  \/ \E id \in MultiIds : getMemory(1, id)
  \/ \E ids \in IdLists : getMemories(1, ids)
  \/ \E n \in 0..MaxRetryCount : reprocessFailedEmbeddings(1, n)
  \/ StoreSettles(1)
  \/ ReprocessSettles(1)
  \/ \E ok \in BOOLEAN : DeleteReturn(1, ok)
  \/ \E rejected \in SUBSET MultiIds : DeleteManyReturn(1, rejected)
  \/ \E ok \in BOOLEAN : GetReturn(1, ok)
  \/ \E ok \in BOOLEAN, order \in SeqsUpTo(MultiIds, Cardinality(MultiIds)) :
       GetManyReturn(1, ok, order)

SpecMulti == Init /\ [][NextMulti]_vars

\* The Memory Service tools.
SearchArgs ==
  [query : {Undefined, "", "q"}, limit : {0, 1},
   minRelevanceScore : {NoScore, 0, 50},
   currentQuery : {NoText}, maxMemories : {0}, maxTokens : {0},
   types : {{}, {"fact"}}, timeRange : {NoRange, [start |-> 2, end |-> 2]}]

ContextArgs ==
  [query : {NoText}, limit : {0}, minRelevanceScore : {NoScore},
   currentQuery : {NoText, "", "q"}, maxMemories : {0, 1, 2},
   maxTokens : {0, 100}, types : {{}}, timeRange : {NoRange}]

NextService ==
  \/ \E c \in ConversationInputs : captureConversation(1, c, NoMeta, 1)
  \/ \E a \in SearchArgs : searchMemory(1, a)
  \/ \E a \in ContextArgs : getContext(1, a)
  \/ StoreSettles(1)
  \/ \E ok \in BOOLEAN : SearchEmbedReturn(1, ok)
  \/ \E ok \in BOOLEAN, hits \in HitLists : SearchQueryReturn(1, ok, hits)

SpecService == Init /\ [][NextService]_vars

ToolConversations == {"c1", Undefined, "", " ", NotAString, LongText}

ToolSearchArgs ==
  {NoArgs} \cup
  [query : {Undefined, " ", "q"}, limit : {0, 1, 101},
   minRelevanceScore : {NoScore, 0, 150},
   currentQuery : {NoText}, maxMemories : {0}, maxTokens : {0},
   types : {{}}, timeRange : {NoRange}]

ToolContextArgs ==
  {NoArgs} \cup
  [query : {NoText}, limit : {0}, minRelevanceScore : {NoScore},
   currentQuery : {NoText, "q"}, maxMemories : {0, 1, 51},
   maxTokens : {0, 100, 50}, types : {{}}, timeRange : {NoRange}]

NextTools ==
  \/ \E present \in BOOLEAN, c \in ToolConversations :
       toolCaptureConversation(1, present, c)
  \/ \E present \in BOOLEAN, a \in ToolSearchArgs :
       toolSearchMemory(1, present, a)
  \/ \E present \in BOOLEAN, a \in ToolContextArgs :
       toolGetContext(1, present, a)
  \/ StoreSettles(1)
  \/ \E ok \in BOOLEAN : SearchEmbedReturn(1, ok)
  \/ \E ok \in BOOLEAN, hits \in HitLists : SearchQueryReturn(1, ok, hits)

SpecTools == Init /\ [][NextTools]_vars

\* Two callers whose calls on one memory id interleave at the awaits; each
\* caller issues one call.  The memory was stored before, while the
\* Embedding Provider was failing (the state storeMemory leaves then).
SeedMemory ==
  [id |-> "a", type |-> "conversation", content |-> "c1", timestamp |-> 1,
   metadata |-> NoMeta]

InitConc ==
  /\ docs = [i \in {"a"} |-> memoryToDocument(SeedMemory, <<>>)]
  /\ failedEmbeddings = <<FailedEmbedding("a", "c1", "ProviderError", 0)>>
  /\ nextGen = 0
  /\ tasks = [t \in Tasks |-> IdleTask]

NextConc ==
  \E t \in Tasks :
    \/ /\ tasks[t].pc = "idle"
       /\ \E c \in Contents : storeMemory(t, [SeedMemory EXCEPT !.content = c])
    \/ /\ tasks[t].pc = "idle"
       /\ \E c \in Contents : updateMemory(t, "a", c)
    \/ /\ tasks[t].pc = "idle"
       /\ reprocessFailedEmbeddings(t, MaxRetryCount)
    \/ StoreSettles(t)
    \/ UpdateSettles(t)
    \/ ReprocessSettles(t)

SpecConc == InitConc /\ [][NextConc]_vars

\* Callers that reprocess and delete on the one store instance, their
\* awaits interleaved, starting with the seeded memory tracked as failed.
NextRace ==
  \E t \in Tasks :
    \/ reprocessFailedEmbeddings(t, MaxRetryCount)
    \/ deleteMemory(t, "a")
    \/ ReprocessSettles(t)
    \/ \E ok \in BOOLEAN : DeleteReturn(t, ok)

SpecRace == InitConc /\ [][NextRace]_vars

\* The Embedding Provider keeps failing: caller 1 reprocesses repeatedly,
\* caller 2 reads and deletes; nobody stores or updates.
NextRetry ==
  \/ reprocessAgain(1)
  \/ ReprocessEmbedReturn(1, FALSE)
  \/ getMemory(2, "a")
  \/ \E ok \in BOOLEAN : GetReturn(2, ok)
  \/ deleteMemory(2, "a")
  \/ \E ok \in BOOLEAN : DeleteReturn(2, ok)

SpecRetry == InitConc /\ [][NextRetry]_vars

(***************************************************************************)
(* OpenAIEmbeddingService.generateEmbeddings                               *)
(***************************************************************************)

\* a slot of `new Array(n)` that was never assigned
Hole == <<>>

\* texts.filter((text) => text.trim())
nonEmptyTexts(texts) == SelectSeq(texts, LAMBDA text : Trim(text) # "")

\* Array.prototype.slice(from, to), zero-based, `to` exclusive
Slice(s, from, to) == SubSeq(s, from + 1, Min(to, Len(s)))

\* the orders in which a response may list the indexes of an n-text request,
\* some of them possibly missing
Orders(n) ==
  {o \in SeqsUpTo(0..(n - 1), n) :
     \A i, j \in 1..Len(o) : i # j => o[i] # o[j]}

\* data.data of a response: (index, embedding) pairs in the provider's order
Response(sent, order) ==
  [j \in 1..Len(order) |->
     [index |-> order[j], embedding |-> Embed(sent[order[j] + 1])]]

\* variant: the vectors are taken in the order of the response
ReassemblePositional(n, data) ==
  [k \in 1..n |-> IF k <= Len(data) THEN data[k].embedding ELSE Hole]

\* embeddings = new Array(n); embeddings[item.index] = item.embedding
Reassemble(n, data) ==
  [k \in 1..n |->
     LET js == {j \in 1..Len(data) : data[j].index = k - 1}
     IN  IF js = {} THEN Hole
         ELSE data[CHOOSE j \in js : \A i \in js : i <= j].embedding]

\* callOpenAIEmbeddings(sent) is issued
EmbedCall(T, sent) ==
  [T EXCEPT !.pc = "embed_call", !.sent = sent,
            !.maxSent = Max(@, Len(sent))]

generateEmbeddings(t, texts, batchSize) ==
  /\ Free(t)
  /\ LET T0 == [NewCall("generateEmbeddings") EXCEPT
                  !.texts = texts, !.batchSize = batchSize]
         nonEmpty == nonEmptyTexts(texts)
     IN  tasks' = [tasks EXCEPT ![t] =
           IF Len(texts) = 0
           THEN Finish([T0 EXCEPT !.result = "ok"])
           ELSE IF Len(nonEmpty) = 0
           THEN Finish([T0 EXCEPT
                  !.result = "error",
                  !.error = "Cannot generate embeddings for all empty texts"])
           ELSE IF Len(nonEmpty) > batchSize
           \* processBatches: i = 0
           THEN EmbedCall([T0 EXCEPT !.batch = nonEmpty, !.idx = 0],
                          Slice(nonEmpty, 0, batchSize))
           ELSE EmbedCall([T0 EXCEPT !.batch = nonEmpty], nonEmpty)]
  /\ UNCHANGED <<docs, failedEmbeddings, nextGen>>

\* The response of the provider arrives: callOpenAIEmbeddings reassembles
\* and validates it, and processBatches goes on with the next slice.
EmbedCallReturn(t, ok, order) ==
  /\ tasks[t].pc = "embed_call"
  /\ order \in Orders(Len(tasks[t].sent))
  /\ ~ok => order = <<>>
  /\ LET T == [tasks[t] EXCEPT
                 !.permuted = @ \/ \E j \in 1..Len(order) : order[j] # j - 1]
         n == Len(T.sent)
         embeddings == Reassemble(n, Response(T.sent, order))
         complete == \A k \in 1..n : embeddings[k] # Hole
         batched == Len(T.batch) > T.batchSize
         results == T.ret \o embeddings
         i == T.idx + T.batchSize
     IN  tasks' = [tasks EXCEPT ![t] =
           IF ~ok
           THEN Finish([T EXCEPT !.result = "error",
                                 !.error = "OpenAI API error",
                                 !.embFailed = TRUE, !.ret = <<>>])
           ELSE IF ~complete
           THEN Finish([T EXCEPT !.result = "error",
                                 !.error = "Missing embedding",
                                 !.missing = TRUE, !.ret = <<>>])
           ELSE IF ~batched
           THEN Finish([T EXCEPT !.result = "ok", !.ret = embeddings])
           ELSE IF i < Len(T.batch)
           THEN EmbedCall([T EXCEPT !.ret = results, !.idx = i],
                          Slice(T.batch, i, i + T.batchSize))
           ELSE Finish([T EXCEPT !.result = "ok", !.ret = results])]
  /\ UNCHANGED <<docs, failedEmbeddings, nextGen>>

Texts == {"c1", "c2", " "}
TextLists == SeqsUpTo(Texts, MaxTexts)
BatchSizes == 0..MaxBatchSize

\* the embedding service has no state of its own: one caller
NextEmbed ==
  \/ \E texts \in TextLists, batchSize \in BatchSizes :
       generateEmbeddings(1, texts, batchSize)
  \/ \E ok \in BOOLEAN, order \in Orders(MaxBatchSize) :
       EmbedCallReturn(1, ok, order)

SpecEmbed == Init /\ [][NextEmbed]_vars


\* ------------------------------------------------------------------------
\* Properties
\* ------------------------------------------------------------------------
Range(q) == {q[i] : i \in 1..Len(q)}

Returned(t, op) == tasks[t].op = op /\ tasks[t].pc = "done"

\* C1: when the Embedding Provider fails during storeMemory(m) and the
\* Document Store accepts the write, storeMemory returns normally, the
\* document for m.id holds m's content and an empty embedding (getMemory
\* gives m's content with the embedding absent), and the failure table has
\* exactly one entry for m.id, with retryCount 0 and m's content.
C1_EmbeddingFailureAbsorbed ==
  \A t \in Tasks :
    LET T == tasks[t] IN
    (Returned(t, "storeMemory") /\ T.embFailed /\ ~T.storeFailed) =>
      /\ T.result = "ok"
      /\ T.id \in DOMAIN docs
      /\ docs[T.id].document = T.mem.content
      /\ docs[T.id].embedding = <<>>
      /\ documentToMemory(docs[T.id]).content = T.mem.content
      /\ documentToMemory(docs[T.id]).embedding = <<>>
      /\ Cardinality({i \in 1..Len(failedEmbeddings) :
                        failedEmbeddings[i].memoryId = T.id}) = 1
      /\ MapGet(failedEmbeddings, T.id).retryCount = 0
      /\ MapGet(failedEmbeddings, T.id).content = T.mem.content

\* storeMemory has returned after an embedding failure, over an earlier
\* failure record of the same id
C1_Witness ==
  \E t \in Tasks :
    /\ Returned(t, "storeMemory")
    /\ tasks[t].embFailed /\ ~tasks[t].storeFailed
    /\ tasks[t].result = "ok"
    /\ tasks[t].id \in tasks[t].pre

\* C2: round trip: storeMemory(m) followed by getMemory(m.id) returns a
\* memory with m's content, type and timestamp, for every type and every
\* metadata map.
C2_RoundTrip ==
  \A t \in Tasks :
    LET T == tasks[t] IN
    (Returned(t, "getMemory") /\ T.result = "ok" /\ T.prev # NoMem) =>
      /\ T.ret # <<>>
      /\ T.ret[1].content = T.prev.content
      /\ T.ret[1].type = T.prev.type
      /\ T.ret[1].timestamp = T.prev.timestamp

\* C3: a reprocessFailedEmbeddings pass in which the provider succeeds for a
\* tracked entry (and the Document Store answers every call) reports the id
\* in successful, leaves it out of the failure table, and leaves the stored
\* document with a non-empty embedding.
C3_ReprocessEmbeds ==
  \A t \in Tasks :
    LET T == tasks[t] IN
    (Returned(t, "reprocessFailedEmbeddings") /\ ~T.storeFailed) =>
      \A i \in 1..Len(T.log) :
        ~T.log[i].embFailed =>
          /\ T.log[i].id \in Range(T.successful)
          /\ ~MapHas(failedEmbeddings, T.log[i].id)
          /\ T.log[i].id \in DOMAIN docs
          /\ docs[T.log[i].id].embedding # <<>>

\* C4: captureConversation with valid content returns success with the
\* memoryId and the conversation is in the Document Store, also when the
\* Embedding Provider fails; the failure is then tracked under the memoryId.
C4_CaptureSurvivesEmbeddingFailure ==
  \A t \in Tasks :
    LET T == tasks[t] IN
    (/\ Returned(t, "captureConversation")
     /\ ~validateConversationInputThrows(T.content)
     /\ ~T.storeFailed) =>
      /\ T.result = "ok"
      /\ T.ret = <<T.id>>
      /\ T.id \in DOMAIN docs
      /\ docs[T.id].document = T.content
      /\ T.embFailed =>
           /\ docs[T.id].embedding = <<>>
           /\ MapHas(failedEmbeddings, T.id)
           /\ MapGet(failedEmbeddings, T.id).content = T.content

\* captureConversation has returned success although the provider failed
C4_Witness ==
  \E t \in Tasks :
    /\ Returned(t, "captureConversation")
    /\ tasks[t].embFailed /\ ~tasks[t].storeFailed
    /\ tasks[t].result = "ok"
    /\ MapHas(failedEmbeddings, tasks[t].id)

\* the updateDocuments of call t takes effect in this step
Writes(t) ==
  /\ tasks[t].pc \in {"upd_write", "rep_write"}
  /\ tasks'[t].pc # tasks[t].pc
  /\ docs' # docs

\* call t replaces, by the embedding it computed from what it read earlier,
\* a successful embedding another call has written since
StaleOverwrite(t) ==
  LET T == tasks[t] IN
  /\ Writes(t)
  /\ T.id \in DOMAIN docs
  /\ docs[T.id] # T.seen[1]
  /\ docs[T.id].embedding = Embed(docs[T.id].document)
  /\ docs'[T.id].embedding # docs[T.id].embedding

\* the reprocess pass of call t deletes a failure record that another call
\* has put in the table since the pass picked up the entry
ErasesNewerFailure(t) ==
  LET T == tasks[t] IN
  /\ T.pc = "rep_write"
  /\ tasks'[t].pc # T.pc
  /\ ~T.attached
  /\ MapHas(failedEmbeddings, T.id)
  /\ ~MapHas(failedEmbeddings', T.id)

\* C5: in every interleaving of storeMemory / updateMemory /
\* reprocessFailedEmbeddings calls on one id, no call overwrites a
\* successful embedding written since it read the document, and no call
\* erases a failure record that is newer than the one it worked on.
C5_NoStaleClobber ==
  [][\A t \in Tasks : ~StaleOverwrite(t) /\ ~ErasesNewerFailure(t)]_vars

\* C6: an entry leaves the failure table only when a regenerated embedding
\* has been persisted for its id or the memory was deleted: after any call,
\* an id that was tracked before the call and is no longer tracked is
\* either not stored or stored with a non-empty embedding.
C6_TrackedNeverLost ==
  \A t \in Tasks :
    tasks[t].pc = "done" =>
      \A id \in tasks[t].pre \ MapKeys(failedEmbeddings) :
        id \notin DOMAIN docs \/ docs[id].embedding # <<>>

\* C7: every hit with distance d is reported with
\* relevanceScore = max(0, min(1, 1 - d)).
C7_RelevanceClamped ==
  \A t \in Tasks :
    LET T == tasks[t] IN
    (Returned(t, "searchMemories") /\ T.result = "ok") =>
      \A i \in 1..Len(T.ret) :
        LET d == T.hits[HitIndex(T.ret[i].id)] IN
        d # NoDistance =>
          T.ret[i].relevanceScore = distanceToRelevanceScore(d)

\* the ids of the hits whose relevance max(0, min(1, 1 - d)) reaches the
\* threshold, in the order of the hits
Relevant(query, hits) ==
  LET ranked == [i \in 1..Len(hits) |-> [id |-> HitIds[i], d |-> hits[i]]]
      Keep(h) == distanceToRelevanceScore(h.d) >= query.minRelevanceScore
      kept == SelectSeq(ranked, Keep)
  IN  [i \in 1..Len(kept) |-> kept[i].id]

\* C8: with minRelevanceScore set, searchMemories returns exactly the hits
\* whose relevance is at least the threshold, in the store's order, and at
\* most limit (default 10) of them.
C8_ThresholdFilter ==
  \A t \in Tasks :
    LET T == tasks[t] IN
    (/\ Returned(t, "searchMemories") /\ T.result = "ok"
     /\ T.query.minRelevanceScore # NoScore
     /\ \A i \in 1..Len(T.hits) : T.hits[i] # NoDistance) =>
      /\ [i \in 1..Len(T.ret) |-> T.ret[i].id] = Relevant(T.query, T.hits)
      /\ Len(T.ret) <= EffectiveLimit(T.query)

\* C9: searchMemories with an empty or absent query text returns [] and
\* calls neither the Embedding Provider nor the Document Store.
C9_EmptyQueryNoCalls ==
  \A t \in Tasks :
    LET T == tasks[t] IN
    (Returned(t, "searchMemories") /\ T.query.query \in {NoText, ""}) =>
      /\ T.result = "ok"
      /\ T.ret = <<>>
      /\ T.nEmb = 0
      /\ T.nStore = 0

\* searchMemories has returned [] for an empty query text that carries a
\* relevance threshold
C9_Witness ==
  \E t \in Tasks :
    /\ Returned(t, "searchMemories")
    /\ tasks[t].query.query = ""
    /\ tasks[t].query.minRelevanceScore = 50
    /\ tasks[t].ret = <<>>

Occurrences(batch, id) ==
  Cardinality({i \in 1..Len(batch) : batch[i].id = id})

\* C10: storeMemories returns totalProcessed = batch length, every item is
\* in exactly one of successful / failed, an item whose document write
\* fails is in failed, an item whose embedding fails but whose write
\* succeeds is in successful and tracked in the failure table, and
\* successful lists the ids under which the memories were stored,
\* store-assigned ids included.
C10_BatchAccounting ==
  \A t \in Tasks :
    LET T == tasks[t] IN
    Returned(t, "storeMemories") =>
      /\ T.total = Len(T.batch)
      /\ Len(T.successful) + Len(T.failed) = Len(T.batch)
      /\ Len(T.log) = Len(T.batch)
      /\ \A i \in 1..Len(T.batch) :
           /\ T.log[i].stored => T.log[i].id \in Range(T.successful)
           /\ (~T.log[i].stored /\ T.batch[i].id # NoId) =>
                \E f \in Range(T.failed) : f.id = T.batch[i].id
           /\ (/\ T.log[i].stored /\ T.log[i].embFailed
               /\ Occurrences(T.batch, T.batch[i].id) = 1) =>
                MapHas(failedEmbeddings, T.log[i].id)

\* C11: in updateMemory, a successful regeneration clears the failure record
\* of the id; a failed regeneration leaves a record whose retryCount is 0
\* when there was none before and the previous retryCount + 1 otherwise;
\* with unchanged content no embedding call is made and the failure table
\* stays as it is.
C11_UpdateEmbeddingPolicy ==
  [][\A t \in Tasks :
       LET T == tasks[t]
           U == tasks'[t]
           F == failedEmbeddings
           G == failedEmbeddings'
       IN
       /\ (T.pc = "upd_embed" /\ U # T /\ ~U.embFailed) => ~MapHas(G, T.id)
       /\ (T.pc = "upd_embed" /\ U # T /\ U.embFailed) =>
            /\ MapHas(G, T.id)
            /\ MapGet(G, T.id).retryCount =
                 IF MapHas(F, T.id) THEN MapGet(F, T.id).retryCount + 1 ELSE 0
       /\ (T.pc = "upd_get" /\ U # T /\ U.pc # "upd_embed") =>
            /\ U.nEmb = 0
            /\ G = F]_vars

\* C12: updateMemory on an id that is not in the Document Store fails with
\* the not-found error, makes no embedding call and no write, and leaves
\* the Document Store and the failure table unchanged.
C12_UpdateMissingNotFound ==
  [][\A t \in Tasks :
       LET T == tasks[t]
           U == tasks'[t]
       IN
       (/\ T.pc = "upd_get" /\ U # T /\ ~U.storeFailed
        /\ T.id \notin DOMAIN docs) =>
         /\ U.pc = "done"
         /\ U.result = "error"
         /\ U.error = "NotFound"
         /\ U.nEmb = 0
         /\ U.nStore = 1
         /\ ~U.wrote
         /\ docs' = docs
         /\ failedEmbeddings' = failedEmbeddings]_vars

\* updateMemory with new content has ended in the not-found error
C12_Witness ==
  \E t \in Tasks :
    /\ Returned(t, "updateMemory")
    /\ tasks[t].error = "NotFound"
    /\ tasks[t].content # ""
    /\ tasks[t].id \notin DOMAIN docs

\* C13: after a successful deleteMemory(id) or deleteMemories(ids) every
\* deleted id is absent from the Document Store and from the failure table,
\* and no failure record exists for an id that is not stored.
C13_DeleteClearsBoth ==
  /\ \A t \in Tasks :
       LET T == tasks[t] IN
       /\ (Returned(t, "deleteMemory") /\ T.result = "ok") =>
            /\ T.id \notin DOMAIN docs
            /\ ~MapHas(failedEmbeddings, T.id)
       /\ (Returned(t, "deleteMemories") /\ ~T.storeFailed) =>
            \A i \in 1..Len(T.ids) :
              /\ T.ids[i] \notin DOMAIN docs
              /\ ~MapHas(failedEmbeddings, T.ids[i])
              /\ T.ids[i] \in Range(T.successful)
  /\ MapKeys(failedEmbeddings) \subseteq DOMAIN docs

\* deleteMemories has deleted two memories that both had a failure record
C13_Witness ==
  \E t \in Tasks :
    /\ Returned(t, "deleteMemories") /\ ~tasks[t].storeFailed
    /\ Len(tasks[t].ids) = 2
    /\ tasks[t].ids[1] # tasks[t].ids[2]
    /\ Range(tasks[t].ids) \subseteq tasks[t].pre

Attempted(T) == {T.log[i].id : i \in 1..Len(T.log)}

\* C14: reprocessFailedEmbeddings(maxRetries) calls the Embedding Provider
\* for no entry whose retryCount >= maxRetries; such an entry is reported in
\* failed, keeps its retryCount and stays in the failure table.
C14_MaxRetriesSkipped ==
  [][\A t \in Tasks :
       LET T == tasks[t]
           U == tasks'[t]
           F == failedEmbeddings
           G == failedEmbeddings'
       IN
       (U.op = "reprocessFailedEmbeddings" /\ U # T) =>
         /\ U.pc = "rep_embed" =>
              MapGet(G, U.id).retryCount < U.maxRetries
         /\ \A i \in 1..Len(F) :
              F[i].retryCount >= U.maxRetries =>
                \E j \in 1..Len(G) : G[j] = F[i]
         /\ U.pc = "done" =>
              /\ U.nEmb = Len(U.log)
              /\ \A j \in 1..Len(G) :
                   (/\ G[j].retryCount >= U.maxRetries
                    /\ G[j].memoryId \notin Attempted(U)) =>
                     \E f \in Range(U.failed) :
                       f.id = G[j].memoryId /\ f.error = "MaxRetries"]_vars

\* a pass has skipped one entry at maxRetries and retried another
C14_Witness ==
  \E t \in Tasks :
    /\ Returned(t, "reprocessFailedEmbeddings")
    /\ tasks[t].maxRetries > 0
    /\ tasks[t].nEmb = 1
    /\ \E f \in Range(tasks[t].failed) :
         /\ f.error = "MaxRetries"
         /\ MapHas(failedEmbeddings, f.id)
         /\ MapGet(failedEmbeddings, f.id).retryCount = tasks[t].maxRetries

\* C15: when the embedding retry of an entry below maxRetries fails, the
\* pass adds exactly 1 to the entry's retryCount, replaces its error,
\* reports the id in failed, keeps the entry, and leaves the stored
\* document as it is.
C15_FailedRetryCounts ==
  [][\A t \in Tasks :
       LET T == tasks[t]
           U == tasks'[t]
           F == failedEmbeddings
           G == failedEmbeddings'
       IN
       (/\ T.pc = "rep_embed"
        /\ Len(U.log) = Len(T.log) + 1
        /\ U.log[Len(U.log)].embFailed) =>
         /\ MapHas(F, T.id) /\ MapHas(G, T.id)
         /\ MapGet(F, T.id).retryCount < T.maxRetries
         /\ MapGet(G, T.id).retryCount = MapGet(F, T.id).retryCount + 1
         /\ MapGet(G, T.id).error = "ProviderError"
         /\ MapGet(G, T.id).content = MapGet(F, T.id).content
         /\ Len(G) = Len(F)
         /\ \E f \in Range(U.failed) : f.id = T.id /\ f.error = "ProviderError"
         /\ docs' = docs]_vars

\* a pass has returned after a failed retry that brought an entry to
\* retryCount 2
C15_Witness ==
  \E t \in Tasks :
    /\ Returned(t, "reprocessFailedEmbeddings")
    /\ \E i \in 1..Len(tasks[t].log) :
         /\ tasks[t].log[i].embFailed
         /\ MapHas(failedEmbeddings, tasks[t].log[i].id)
         /\ MapGet(failedEmbeddings, tasks[t].log[i].id).retryCount = 2
         /\ MapGet(failedEmbeddings, tasks[t].log[i].id).error = "ProviderError"

C17_GetMemoriesOrder ==
  \A t \in Tasks :
    LET T == tasks[t] IN
    /\ (Returned(t, "getMemories") /\ T.result = "ok") =>
         /\ Len(T.ret) = Len(T.ids)
         /\ \A i \in 1..Len(T.ids) :
              IF T.ids[i] \in DOMAIN docs
              THEN /\ T.ret[i] # Null
                   /\ T.ret[i].id = T.ids[i]
                   /\ T.ret[i].content = docs[T.ids[i]].document
                   /\ T.ret[i].embedding = docs[T.ids[i]].embedding
              ELSE T.ret[i] = Null
    /\ (Returned(t, "getMemory") /\ T.result = "ok"
          /\ T.id \notin DOMAIN docs) => T.ret = <<>>

\* getMemories has answered for two stored ids that the Document Store
\* returned in the opposite order
C17_Witness ==
  \E t \in Tasks :
    /\ Returned(t, "getMemories") /\ tasks[t].result = "ok"
    /\ tasks[t].ids = <<"a", "b">>
    /\ tasks[t].returned = <<"b", "a">>
    /\ tasks[t].ret[1].id = "a"

ServiceOps == {"captureConversation", "searchMemory", "getContext"}

\* C18: captureConversation with content that is empty, not a string or
\* longer than maxConversationLength fails with the validation error and
\* changes nothing: no Embedding Provider call, no Document Store call, the
\* Document Store and the failure table as before.  A missing content field
\* changes nothing either.
C18_InvalidCaptureWritesNothing ==
  [][\A t \in Tasks :
       LET T == tasks[t]
           U == tasks'[t]
       IN
       (/\ Free(t) /\ U # T /\ U.op = "captureConversation"
        /\ U.content \in {"", NotAString, LongText, Undefined}) =>
         /\ U.pc = "done"
         /\ U.result = "error"
         /\ U.content # Undefined => U.error = "ToolExecutionError"
         /\ U.ret = <<>>
         /\ U.nEmb = 0
         /\ U.nStore = 0
         /\ docs' = docs
         /\ failedEmbeddings' = failedEmbeddings
         /\ nextGen' = nextGen]_vars

\* an over-long conversation has been refused while the failure table held
\* a record
C18_Witness ==
  \E t \in Tasks :
    /\ Returned(t, "captureConversation")
    /\ tasks[t].content = LongText
    /\ tasks[t].result = "error"
    /\ tasks[t].nStore = 0
    /\ failedEmbeddings # <<>>

\* C19: every Memory Service call ends either with a success payload or
\* with a ToolExecutionError, whatever the arguments (a missing content or
\* query field included) and whatever fails underneath.
C19_UniformErrors ==
  \A t \in Tasks :
    LET T == tasks[t] IN
    (T.op \in ServiceOps /\ T.pc = "done") =>
      \/ T.result = "ok"
      \/ T.result = "error" /\ T.error = "ToolExecutionError"

\* C20: getContext returns at most maxMemories memories (5 when maxMemories
\* is absent) and a non-empty selectionReason, which is the "no relevant
\* memories found" text when no memory was selected.
C20_ContextCapAndReason ==
  \A t \in Tasks :
    LET T == tasks[t] IN
    (Returned(t, "getContext") /\ T.result = "ok") =>
      /\ Len(T.ret) <= (IF T.args.maxMemories = 0 THEN 5 ELSE T.args.maxMemories)
      /\ T.reason.text # ""
      /\ Len(T.ret) = 0 =>
           T.reason.text = "No relevant memories found matching the criteria"
      /\ Len(T.ret) > 0 =>
           /\ T.reason.count = Len(T.ret)
           /\ T.reason.reasons # <<>>

\* getContext({}) has returned without any memory
C20_Witness ==
  \E t \in Tasks :
    /\ Returned(t, "getContext") /\ tasks[t].result = "ok"
    /\ tasks[t].args.currentQuery = NoText
    /\ tasks[t].args.maxMemories = 0
    /\ tasks[t].ret = <<>>
    /\ tasks[t].nEmb = 0

\* C21: getContext without currentQuery retrieves broadly: when the store
\* holds a memory the call performs a store retrieval, and the memories it
\* returns are explained as a recency-driven selection.
C21_ContextWithoutQueryRetrieves ==
  \A t \in Tasks :
    LET T == tasks[t] IN
    (/\ Returned(t, "getContext") /\ T.result = "ok"
     /\ T.args.currentQuery \in {NoText, ""}
     /\ DOMAIN docs # {}) =>
      /\ T.nStore > 0
      /\ T.query.minRelevanceScore = 30
      /\ Len(T.ret) > 0 =>
           "selected most recent memories" \in Range(T.reason.reasons)

\* C22: when getContext is given maxTokens, the memories it returns cost
\* at most maxTokens by the estimate (the sum over the memories of
\* ceil((content length + serialized-metadata length) / 4)).
C22_TokenBudget ==
  \A t \in Tasks :
    LET T == tasks[t] IN
    (Returned(t, "getContext") /\ T.result = "ok" /\ T.args.maxTokens # 0) =>
      /\ T.estimatedTokens = estimateTokens(T.ret)
      /\ T.estimatedTokens <= T.args.maxTokens

\* C23: searchMemory uses limit 10 and minRelevanceScore 0.7 only for
\* absent arguments; a supplied limit or minRelevanceScore (0 included)
\* reaches the Memory Store unchanged, every result scores at least the
\* effective threshold, and totalCount is the number of results.
C23_SearchDefaultsOnlyWhenAbsent ==
  \A t \in Tasks :
    LET T == tasks[t] IN
    (Returned(t, "searchMemory") /\ T.result = "ok") =>
      /\ T.query.limit = IF T.args.limit = 0 THEN 10 ELSE T.args.limit
      /\ T.query.minRelevanceScore =
           IF T.args.minRelevanceScore = NoScore
           THEN 70 ELSE T.args.minRelevanceScore
      /\ \A i \in 1..Len(T.ret) :
           T.ret[i].relevanceScore >= T.query.minRelevanceScore
      /\ T.total = Len(T.ret)

\* C24: with a types filter and/or a timeRange filter, every result of
\* searchMemory has one of the requested types and a timestamp inside the
\* requested range.
C24_SearchFiltersApplied ==
  \A t \in Tasks :
    LET T == tasks[t] IN
    (Returned(t, "searchMemory") /\ T.result = "ok") =>
      \A i \in 1..Len(T.ret) :
        LET k == HitIndex(T.ret[i].id) IN
        /\ T.args.types # {} => HitTypes[k] \in T.args.types
        /\ T.args.timeRange.start # 0 =>
             HitTimestamps[k] >= T.args.timeRange.start
        /\ T.args.timeRange.end # 0 =>
             HitTimestamps[k] <= T.args.timeRange.end

\* C25: for non-empty texts, any batch size and any order of the
\* provider's (index, vector) pairs, no remote call carries more than
\* batchSize texts, a returned result has exactly the vector of texts[i] at
\* position i, and a response that lacks an index makes the call fail
\* with no result.
C25_EmbeddingsAligned ==
  \A t \in Tasks :
    LET T == tasks[t] IN
    (/\ T.op = "generateEmbeddings"
     /\ Len(T.texts) > 0
     /\ \A i \in 1..Len(T.texts) : Trim(T.texts[i]) # "") =>
      /\ T.maxSent <= T.batchSize
      /\ T.pc = "done" =>
           /\ T.result = "ok" =>
                T.ret = [i \in 1..Len(T.texts) |-> Embed(T.texts[i])]
           /\ T.missing => T.result = "error" /\ T.ret = <<>>
           /\ (~T.missing /\ ~T.embFailed) => T.result = "ok"

\* a list of different texts, longer than the batch size, has been embedded
\* from sub-batches of which one came back out of order
C25_Witness ==
  \E t \in Tasks :
    LET T == tasks[t] IN
    /\ Returned(t, "generateEmbeddings") /\ T.result = "ok"
    /\ T.permuted
    /\ Len(T.texts) > T.batchSize
    /\ T.texts[1] # T.texts[2]
    /\ \A i \in 1..Len(T.texts) : Trim(T.texts[i]) # ""

\* C26: a tool handler call, whatever its arguments (no argument object
\* included) and whatever fails downstream, returns a result with success
\* true or false and does not throw; when the handler's validation rejects
\* the arguments the MemoryService is not invoked.
C26_HandlersNeverThrow ==
  \A t \in Tasks :
    LET T == tasks[t] IN
    (T.tool # "" /\ T.pc = "done") =>
      /\ T.result = "ok"
      /\ T.success \in {"true", "false"}
      /\ T.error = "Invalid arguments" => ~T.invoked

\* C27: when the embedding of storeMemory succeeded and the Document Store
\* write fails, the store failure reaches the caller and the memory is not
\* persisted (an empty embedding and a failure record come from a provider
\* failure only).
C27_StoreFailurePropagates ==
  \A t \in Tasks :
    LET T == tasks[t] IN
    (Returned(t, "storeMemory") /\ ~T.embFailed /\ T.storeFailed) =>
      /\ T.result = "error"
      /\ \A i \in 1..Len(T.log) : ~T.log[i].stored

\* C28: in every state reached by storeMemory / updateMemory / deleteMemory
\* / reprocessFailedEmbeddings calls in which no call is in progress, a
\* stored memory whose id has no entry in the failure table has a non-empty
\* embedding, generated from the document's current content.
C28_UntrackedHaveFreshEmbedding ==
  (\A t \in Tasks : Free(t)) =>
    \A id \in DOMAIN docs :
      ~MapHas(failedEmbeddings, id) =>
        /\ docs[id].embedding # <<>>
        /\ docs[id].embedding = Embed(docs[id].document)

\* C29: reprocessFailedEmbeddings accounts for every entry that was in the
\* failure table when the call started: its id is in exactly one of
\* successful and failed, and successful.length + failed.length =
\* totalProcessed, also when the retry succeeds and the memory is gone.
C29_ReprocessAccountsForAll ==
  \A t \in Tasks :
    LET T == tasks[t] IN
    Returned(t, "reprocessFailedEmbeddings") =>
      /\ Len(T.successful) + Len(T.failed) = T.total
      /\ \A id \in T.pre :
           (id \in Range(T.successful)) # (\E f \in Range(T.failed) : f.id = id)

\* the provider calls caller 1 has made for the tracked entry so far
Attempts == tasks[1].earlier + tasks[1].nEmb

\* C30: while the provider keeps failing and nobody stores or updates the
\* id, repeated reprocessFailedEmbeddings(maxRetries) calls make at most
\* maxRetries embedding attempts for an entry that started at retryCount 0
\* (one per unit of retryCount); at retryCount = maxRetries no provider
\* call is made for it any more; getMemory and deleteMemory never call the
\* provider.
C30_RetriesBounded ==
  /\ Attempts <= MaxRetryCount
  /\ MapHas(failedEmbeddings, "a") =>
       LET retryCount == MapGet(failedEmbeddings, "a").retryCount IN
       /\ retryCount <= MaxRetryCount
       /\ Attempts = retryCount + (IF tasks[1].pc = "rep_embed" THEN 1 ELSE 0)
       /\ retryCount = MaxRetryCount => tasks[1].pc # "rep_embed"
  /\ \A t \in Tasks :
       tasks[t].op \in {"getMemory", "deleteMemory"} => tasks[t].nEmb = 0

\* the entry has used up its retries and a later pass has returned without
\* a provider call, reporting the entry as failed
C30_Witness ==
  /\ MapHas(failedEmbeddings, "a")
  /\ MapGet(failedEmbeddings, "a").retryCount = MaxRetryCount
  /\ Returned(1, "reprocessFailedEmbeddings")
  /\ tasks[1].nEmb = 0
  /\ tasks[1].earlier = MaxRetryCount
  /\ Len(tasks[1].failed) = 1

====
